---- MODULE Spec2Model ----
(***************************************************************************)
(* InformationRetrievalEvaluator of sentence_transformers/evaluation:      *)
(* construction (__init__), the evaluation call (__call__: chunked         *)
(* scoring, per-query metrics, aggregation), the csv report and the        *)
(* returned score; and the training loop of CrossEncoder.fit with its      *)
(* evaluations, callbacks and saves of the best model.                     *)
(*                                                                         *)
(* Numbers: Python floats are modelled as exact fractions <<n, d>>, d > 0. *)
(* 1/log2(i+2) of compute_dcg_at_k is a fixed-point table (Discount).      *)
(***************************************************************************)
EXTENDS Integers, Sequences, FiniteSets, TLC

\* ------------------------------------------------------------------ bounds
MaxQueries == 2      \* queries handed to the constructor
MaxCorpus == 4       \* documents in the corpus; document ids are 1..MaxCorpus
MaxCells == 4        \* rows x columns of the score matrix
MaxK == 2            \* largest k a caller requests
MaxRel == 2          \* largest relevance set
MaxScore == 1        \* similarity scores are 0..MaxScore
MaxRows == 2         \* calls stop once the report file holds more lines than this
MaxEpochs == 2       \* epochs of a fit call
MaxBatches == 2      \* batches of the train dataloader
MaxEvalSteps == 2    \* evaluation_steps of a fit call

None == "None"
Path == "out"

\* ------------------------------------------------------------ small helpers
Range(s) == {s[i] : i \in 1..Len(s)}

Min2(a, b) == IF a <= b THEN a ELSE b

\* Python's max() of a list: defined on a non-empty list only
MaxOf(s) == CHOOSE m \in Range(s) : \A x \in Range(s) : x <= m

RECURSIVE Gcd(_, _)
Gcd(a, b) == IF b = 0 THEN a ELSE Gcd(b, a % b)

\* fractions
Frac(n, d) == LET g == Gcd(n, d) IN IF g = 0 THEN <<n, d>> ELSE <<n \div g, d \div g>>
FracAdd(a, b) == Frac(a[1] * b[2] + b[1] * a[2], a[2] * b[2])
FracDiv(a, n) == Frac(a[1], a[2] * n)
FracLe(a, b) == a[1] * b[2] <= b[1] * a[2]
FracEq(a, b) == a[1] * b[2] = b[1] * a[2]
Zero == Frac(0, 1)
One == Frac(1, 1)

RECURSIVE FracSum(_)
FracSum(s) == IF s = <<>> THEN Zero ELSE FracAdd(s[1], FracSum(Tail(s)))

\* np.mean of a non-empty list
Mean(s) == FracDiv(FracSum(s), Len(s))

RECURSIVE Flatten(_)
Flatten(ss) == IF ss = <<>> THEN <<>> ELSE ss[1] \o Flatten(Tail(ss))

\* ------------------------------------------------------------ construction
\* a Python dict is the sequence of its <<key, value>> items, in insertion
\* order, no key twice
\* list(d.keys()) and `for key in d`
Keys(d) == [i \in 1..Len(d) |-> d[i][1]]

\* d[key], for a key of d
Lookup(d, key) == d[CHOOSE i \in 1..Len(d) : d[i][1] = key][2]

\* a slip of the test: `if qid in relevant_docs`, whatever the set holds
RECURSIVE RetainedQueriesByKey(_, _)
RetainedQueriesByKey(queries, relevant_docs) ==
    IF queries = <<>> THEN <<>>
    ELSE LET qid == queries[1]
             rest == RetainedQueriesByKey(Tail(queries), relevant_docs)
         IN IF qid \in DOMAIN relevant_docs THEN <<qid>> \o rest ELSE rest

\* self.queries_ids: the keys of `queries` (given as their list), in order,
\* that relevant_docs maps to a non-empty set
RECURSIVE RetainedQueries(_, _)
RetainedQueries(queries, relevant_docs) ==
    IF queries = <<>> THEN <<>>
    ELSE LET qid == queries[1]
             rest == RetainedQueries(Tail(queries), relevant_docs)
         IN IF qid \in DOMAIN relevant_docs /\ Cardinality(relevant_docs[qid]) > 0
            THEN <<qid>> \o rest
            ELSE rest

\* "Precision@k", "Recall@k" for every k of precision_recall_at_k, pair by pair
PrecisionRecallHeaders(ks) ==
    Flatten([i \in 1..Len(ks) |-> << <<"Precision", ks[i]>>, <<"Recall", ks[i]>> >>])

\* self.csv_headers; a column "Name@k" is the pair <<"Name", k>>
CsvHeaders(accuracy_at_k, precision_recall_at_k, mrr_at_k, ndcg_at_k) ==
    << <<"epoch", 0>>, <<"steps", 0>> >>
    \o [i \in 1..Len(accuracy_at_k) |-> <<"Accuracy", accuracy_at_k[i]>>]
    \o PrecisionRecallHeaders(precision_recall_at_k)
    \o [i \in 1..Len(mrr_at_k) |-> <<"MRR", mrr_at_k[i]>>]
    \o [i \in 1..Len(ndcg_at_k) |-> <<"NDCG", ndcg_at_k[i]>>]

\* __init__: the evaluator object
Construct(queries, corpus, relevant_docs, query_chunk_size, corpus_chunk_size, mrr_at_k, ndcg_at_k, accuracy_at_k, precision_recall_at_k) ==
    [queries_ids |-> RetainedQueries(Keys(queries), relevant_docs),
     queries |-> [i \in 1..Len(RetainedQueries(Keys(queries), relevant_docs)) |->
                    Lookup(queries, RetainedQueries(Keys(queries), relevant_docs)[i])],
     corpus_ids |-> Keys(corpus),
     corpus |-> [i \in 1..Len(corpus) |-> Lookup(corpus, Keys(corpus)[i])],
     relevant_docs |-> relevant_docs,
     query_chunk_size |-> query_chunk_size,
     corpus_chunk_size |-> corpus_chunk_size,
     mrr_at_k |-> mrr_at_k,
     ndcg_at_k |-> ndcg_at_k,
     accuracy_at_k |-> accuracy_at_k,
     precision_recall_at_k |-> precision_recall_at_k,
     csv_headers |-> CsvHeaders(accuracy_at_k, precision_recall_at_k, mrr_at_k, ndcg_at_k)]

\* --------------------------------------------------------- chunked scoring
KLists(o) == <<o.mrr_at_k, o.ndcg_at_k, o.accuracy_at_k, o.precision_recall_at_k>>

\* line 85 raises ValueError (max of an empty list) when a k list is empty
EmptyKList(o) == \E i \in 1..4 : KLists(o)[i] = <<>>

\* max_k of line 85
MaxKOf(o) == MaxOf(<<MaxOf(o.mrr_at_k), MaxOf(o.ndcg_at_k),
                     MaxOf(o.accuracy_at_k), MaxOf(o.precision_recall_at_k)>>)

\* range(0, n, size): the chunk starts (0-based), in order
ChunkStarts(n, size) == [c \in 1..((n + size - 1) \div size) |-> (c - 1) * size]

\* min(start + size, n): the chunk's end (exclusive)
ChunkEnd(start, size, n) == Min2(start + size, n)

\* np.argpartition(-cos_scores, max_k) needs max_k < number of columns,
\* and raises ValueError otherwise
KthInBounds(width, max_k) == max_k < width

\* every corpus chunk is wide enough for the partition
AllChunksPartition(o, max_k) ==
    LET n == Len(o.corpus_ids)
        starts == ChunkStarts(n, o.corpus_chunk_size)
    IN \A c \in 1..Len(starts) :
          KthInBounds(ChunkEnd(starts[c], o.corpus_chunk_size, n) - starts[c], max_k)

\* np.argpartition(-row, max_k)[0:max_k] on the columns start+1..end of one row:
\* max_k distinct columns, none scoring below a column left out, in any order
ArgPartition(row, start, end, max_k) ==
    {p \in [1..max_k -> (start + 1)..end] :
        /\ \A i, j \in 1..max_k : i # j => p[i] # p[j]
        /\ \A j \in ((start + 1)..end) \ Range(p) : \A i \in 1..max_k : row[p[i]] >= row[j]}

\* queries_result_list[query_itr] after the loop over the corpus chunks: the
\* partitions of the chunks, appended chunk after chunk (corpus positions)
RECURSIVE ResultLists(_, _, _, _)
ResultLists(o, row, c, max_k) ==
    LET n == Len(o.corpus_ids)
        starts == ChunkStarts(n, o.corpus_chunk_size)
    IN IF c > Len(starts) THEN {<<>>}
       ELSE {p \o rest :
                p \in ArgPartition(row, starts[c], ChunkEnd(starts[c], o.corpus_chunk_size, n), max_k),
                rest \in ResultLists(o, row, c + 1, max_k)}

\* insert h behind the entries of the sorted list that score at least as high
RECURSIVE InsertHit(_, _, _)
InsertHit(sorted, h, row) ==
    IF sorted = <<>> THEN <<h>>
    ELSE IF row[sorted[1]] >= row[h] THEN <<sorted[1]>> \o InsertHit(Tail(sorted), h, row)
    ELSE <<h>> \o sorted

\* sorted(result_list, key=score, reverse=True): stable, descending
RECURSIVE SortHits(_, _)
SortHits(hits, row) ==
    IF hits = <<>> THEN <<>>
    ELSE InsertHit(SortHits(SubSeq(hits, 1, Len(hits) - 1), row), hits[Len(hits)], row)

\* the top_hits one query can end with, as corpus ids
TopHitsOf(o, row, max_k) ==
    {[i \in 1..Len(r) |-> o.corpus_ids[SortHits(r, row)[i]]] : r \in ResultLists(o, row, 1, max_k)}

\* the queries in the order the chunk loops process them (positions in queries_ids)
ProcessedQueries(o) ==
    LET n == Len(o.queries_ids)
        starts == ChunkStarts(n, o.query_chunk_size)
    IN Flatten([c \in 1..Len(starts) |->
                  [i \in 1..(ChunkEnd(starts[c], o.query_chunk_size, n) - starts[c]) |-> starts[c] + i]])

\* ------------------------------------------------------- per-query metrics
\* a slip of the slice: top_hits[k_val-1:k_val], the k-th hit alone
TopKthOnly(top_hits, k) == SubSeq(top_hits, k, Min2(k, Len(top_hits)))

\* top_hits[0:k_val]
TopK(top_hits, k) == SubSeq(top_hits, 1, Min2(k, Len(top_hits)))

\* Accuracy@k of one query: 1 when a relevant document is among the top k
AccuracyHit(top_hits, relevant, k) ==
    IF \E i \in 1..Len(TopK(top_hits, k)) : TopK(top_hits, k)[i] \in relevant THEN 1 ELSE 0

\* a slip of the slice: every hit of top_hits is counted, not the top k
NumCorrectUnsliced(top_hits, relevant, k) ==
    Cardinality({i \in 1..Len(top_hits) : top_hits[i] \in relevant})

\* num_correct: the top-k hits that are relevant
NumCorrect(top_hits, relevant, k) ==
    Cardinality({i \in 1..Len(TopK(top_hits, k)) : TopK(top_hits, k)[i] \in relevant})

\* the MRR loop: 1/(rank+1) of the first relevant hit of hits[rank..], else 0
RECURSIVE FirstRelevant(_, _, _)
FirstRelevant(hits, relevant, rank) ==
    IF rank > Len(hits) THEN Zero
    ELSE IF hits[rank] \in relevant THEN Frac(1, rank)
    ELSE FirstRelevant(hits, relevant, rank + 1)

ReciprocalRank(top_hits, relevant, k) == FirstRelevant(TopK(top_hits, k), relevant, 1)

\* 1000 / log2(i + 2), rounded, for the 0-based position i
Discount(i) == <<1000, 631, 500, 431, 387, 356, 333, 315>>[i + 1]

\* compute_dcg_at_k, in thousandths
RECURSIVE DcgFrom(_, _, _)
DcgFrom(relevances, k, i) ==
    IF i >= Min2(Len(relevances), k) THEN 0
    ELSE relevances[i + 1] * Discount(i) + DcgFrom(relevances, k, i + 1)

compute_dcg_at_k(relevances, k) == DcgFrom(relevances, k, 0)

\* ndcg_value of one query
NdcgValue(top_hits, relevant, k) ==
    LET predicted_relevance == [i \in 1..Len(TopK(top_hits, k)) |->
                                   IF TopK(top_hits, k)[i] \in relevant THEN 1 ELSE 0]
        true_relevances == [i \in 1..Cardinality(relevant) |-> 1]
    IN Frac(compute_dcg_at_k(predicted_relevance, k), compute_dcg_at_k(true_relevances, k))

\* ------------------------------------------------------------- aggregation
RECURSIVE IntSum(_)
IntSum(s) == IF s = <<>> THEN 0 ELSE s[1] + IntSum(Tail(s))

\* the places of k in a k list: `for k_val in ks` visits k once per place
Places(ks, k) == {i \in 1..Len(ks) : ks[i] = k}

Relevant(o, q) == o.relevant_docs[o.queries_ids[q]]

\* num_hits_at_k after line 168
NumHitsAtK(o, th) ==
    LET qs == ProcessedQueries(o)
    IN [k \in Range(o.accuracy_at_k) |->
          Frac(IntSum([i \in 1..Len(qs) |->
                  Cardinality(Places(o.accuracy_at_k, k)) * AccuracyHit(th[qs[i]], Relevant(o, qs[i]), k)]),
               Len(o.queries_ids))]

\* the list an accumulator of precision_recall_at_k or ndcg_at_k holds for k:
\* one value per processed query and place of k; values[q] is the value of
\* the query at position q
PerQueryList(o, ks, k, values) ==
    LET qs == ProcessedQueries(o)
    IN Flatten([i \in 1..Len(qs) |-> [j \in 1..Cardinality(Places(ks, k)) |-> values[qs[i]]]])

\* precisions_at_k after line 171
PrecisionsAtK(o, th) ==
    [k \in Range(o.precision_recall_at_k) |->
        Mean(PerQueryList(o, o.precision_recall_at_k, k,
                [q \in 1..Len(o.queries_ids) |-> Frac(NumCorrect(th[q], Relevant(o, q), k), k)]))]

\* recall_at_k after line 174
RecallAtK(o, th) ==
    [k \in Range(o.precision_recall_at_k) |->
        Mean(PerQueryList(o, o.precision_recall_at_k, k,
                [q \in 1..Len(o.queries_ids) |->
                    Frac(NumCorrect(th[q], Relevant(o, q), k), Cardinality(Relevant(o, q)))]))]

\* ndcg after line 177
NdcgAtK(o, th) ==
    [k \in Range(o.ndcg_at_k) |->
        Mean(PerQueryList(o, o.ndcg_at_k, k,
                [q \in 1..Len(o.queries_ids) |-> NdcgValue(th[q], Relevant(o, q), k)]))]

\* MRR after line 180
MrrAtK(o, th) ==
    [k \in Range(o.mrr_at_k) |->
        FracDiv(FracSum(PerQueryList(o, o.mrr_at_k, k,
                    [q \in 1..Len(o.queries_ids) |-> ReciprocalRank(th[q], Relevant(o, q), k)])),
                Len(o.queries_ids))]

\* what lines 85-180 leave behind when nothing raises
Aggregated(o, th) ==
    [status |-> "ok", at |-> None, top_hits |-> th,
     num_hits_at_k |-> NumHitsAtK(o, th), precisions_at_k |-> PrecisionsAtK(o, th),
     recall_at_k |-> RecallAtK(o, th), MRR |-> MrrAtK(o, th), ndcg |-> NdcgAtK(o, th)]

\* the call raised at the named place; no metric exists
Raised(at) ==
    [status |-> "raised", at |-> at, top_hits |-> <<>>,
     num_hits_at_k |-> <<>>, precisions_at_k |-> <<>>,
     recall_at_k |-> <<>>, MRR |-> <<>>, ndcg |-> <<>>]

\* the top_hits of all queries: one choice of TopHitsOf per query
RECURSIVE AllTopHits(_, _, _, _)
AllTopHits(o, scores, q, max_k) ==
    IF q > Len(o.queries_ids) THEN {<<>>}
    ELSE {<<t>> \o rest : t \in TopHitsOf(o, scores[q], max_k),
                          rest \in AllTopHits(o, scores, q + 1, max_k)}

\* lines 85-180 on the score matrix `scores`: every outcome the build can give
\* (np.argpartition leaves the order inside a partition, and the choice among
\* equal scores, open); line 130 raises KeyError for a query id relevant_docs
\* does not hold, line 149 ZeroDivisionError for an empty relevance set
Outcomes(o, scores) ==
    IF EmptyKList(o) THEN {Raised("max_k")}
    ELSE IF Len(o.queries_ids) = 0 THEN {Raised("average")}
    ELSE IF ~AllChunksPartition(o, MaxKOf(o)) THEN {Raised("argpartition")}
    ELSE IF \E q \in 1..Len(o.queries_ids) : o.queries_ids[q] \notin DOMAIN o.relevant_docs
         THEN {Raised("relevant_docs")}
    ELSE IF \E q \in 1..Len(o.queries_ids) : Cardinality(Relevant(o, q)) = 0
         THEN {Raised("recall")}
    ELSE {Aggregated(o, th) : th \in AllTopHits(o, scores, 1, MaxKOf(o))}

\* ------------------------------------------------------------------ report
\* the csv file: absent, or its lines; a line is its fields
NoFile == [exists |-> FALSE, lines |-> <<>>]

\* a slip of the mode: the file is opened with "w" on every call
OpenCsvTruncating(f, csv_headers) == [exists |-> TRUE, lines |-> <<csv_headers>>]

\* lines 203-209: open(csv_path, "w") and the header when there is no file,
\* open(csv_path, "a") otherwise
OpenCsv(f, csv_headers) ==
    IF ~f.exists THEN [exists |-> TRUE, lines |-> <<csv_headers>>] ELSE f

\* a slip of the order: all precisions, then all recalls
PrecisionRecallGrouped(ks, precisions, recalls) ==
    [i \in 1..Len(ks) |-> precisions[ks[i]]] \o [i \in 1..Len(ks) |-> recalls[ks[i]]]

\* the precision and the recall of every k of precision_recall_at_k, pair by pair
PrecisionRecallData(ks, precisions, recalls) ==
    Flatten([i \in 1..Len(ks) |-> <<precisions[ks[i]], recalls[ks[i]]>>])

\* output_data of lines 211-223
OutputData(o, ep, st, hits, precisions, recalls, mrr, ndcgs) ==
    <<ep, st>>
    \o [i \in 1..Len(o.accuracy_at_k) |-> hits[o.accuracy_at_k[i]]]
    \o PrecisionRecallData(o.precision_recall_at_k, precisions, recalls)
    \o [i \in 1..Len(o.mrr_at_k) |-> mrr[o.mrr_at_k[i]]]
    \o [i \in 1..Len(o.ndcg_at_k) |-> ndcgs[o.ndcg_at_k[i]]]

\* lines 225-227: the row and its newline reach the file
WriteRow(f, row) == [f EXCEPT !.lines = Append(@, row)]

\* a line cut short by a failed write
Torn == <<"torn">>

\* the file after a write or close that raised: the open has happened, and of
\* the buffered lines any part short of all of them may have reached the file
TornWrites(f, csv_headers, row) ==
    LET opened == OpenCsv(f, csv_headers)
        base == [opened EXCEPT !.lines = f.lines]
        buffered == SubSeq(opened.lines, Len(f.lines) + 1, Len(opened.lines)) \o <<row>>
    IN UNION {{[base EXCEPT !.lines = @ \o SubSeq(buffered, 1, n)],
               [base EXCEPT !.lines = @ \o SubSeq(buffered, 1, n) \o <<Torn>>]} :
              n \in 0..(Len(buffered) - 1)}

\* a slip of the key: the MRR of the last k of the list
ReturnLastK(o, mrr) == mrr[o.mrr_at_k[Len(o.mrr_at_k)]]

\* line 229
ReturnValue(o, mrr) == mrr[MaxOf(o.mrr_at_k)]

\* ------------------------------------------------------------------- state
VARIABLES fit, best_score, model, stored, log, threads, supplied, self, pc, raised_at, cos_scores, output_path, epoch, steps, top_hits, num_hits_at_k, precisions_at_k, recall_at_k, MRR, ndcg, ret, csv, csv_before, written, torn

vars == <<fit, best_score, model, stored, log, threads, supplied, self, pc, raised_at, cos_scores, output_path, epoch, steps, top_hits, num_hits_at_k, precisions_at_k, recall_at_k, MRR, ndcg, ret, csv, csv_before, written, torn>>

QueryId(i) == 100 + i
DocId(i) == 10 + i

\* the k lists a caller supplies: positive, no k twice, in any order
KListsUpTo(maxk) ==
    UNION {{s \in [1..n -> 1..maxk] : \A i, j \in 1..n : i # j => s[i] # s[j]} : n \in 0..maxk}

\* the relevance judgments a caller supplies for nq queries over nc documents:
\* sets of at most maxrel document ids, of the corpus or of one document beyond
\* it; a query mapped to the empty set is dropped by the constructor
RelevantDocs(nq, nc, maxrel) ==
    [{QueryId(i) : i \in 1..nq} ->
        {R \in SUBSET {DocId(i) : i \in 1..(nc + 1)} : Cardinality(R) <= maxrel}]

\* the arguments of a constructor call; as in the constructor's defaults,
\* Accuracy and Precision/Recall share a k list, and MRR and NDCG
Arguments(querydicts, corpusdicts, rels, qsizes, csizes, mks, aks) ==
    [queries : querydicts, corpus : corpusdicts, relevant_docs : rels,
     query_chunk_size : qsizes, corpus_chunk_size : csizes, mrr_ndcg_at_k : mks, accuracy_pr_at_k : aks]

\* InformationRetrievalEvaluator(**a)
New(a) ==
    Construct(a.queries, a.corpus, a.relevant_docs, a.query_chunk_size, a.corpus_chunk_size,
              a.mrr_ndcg_at_k, a.mrr_ndcg_at_k, a.accuracy_pr_at_k, a.accuracy_pr_at_k)

\* the arguments with nq queries "a" and nc documents "x", ids in order
PlainArguments(nq, nc, maxrel, qsizes, csizes) ==
    Arguments({[i \in 1..nq |-> <<QueryId(i), "a">>]}, {[i \in 1..nc |-> <<DocId(i), "x">>]},
              RelevantDocs(nq, nc, maxrel), qsizes, csizes, KListsUpTo(MaxK), KListsUpTo(MaxK))

\* the evaluators of nq queries and nc documents
Evaluators(nq, nc, maxrel, qsizes, csizes) ==
    {New(a) : a \in PlainArguments(nq, nc, maxrel, qsizes, csizes)}

\* no CrossEncoder is being trained
NoFit ==
    /\ fit = <<>>
    /\ best_score = None
    /\ model = None
    /\ stored = None
    /\ log = <<>>

Fresh ==
    /\ pc = "idle"
    /\ raised_at = None
    /\ cos_scores = <<>>
    /\ output_path = None
    /\ epoch = -1
    /\ steps = -1
    /\ top_hits = <<>>
    /\ num_hits_at_k = <<>>
    /\ precisions_at_k = <<>>
    /\ recall_at_k = <<>>
    /\ MRR = <<>>
    /\ ndcg = <<>>
    /\ ret = None
    /\ csv = NoFile
    /\ csv_before = NoFile
    /\ written = <<>>
    /\ torn = FALSE

\* the score matrices a model can give: one row per retained query
ScoreMatrices(o) == [1..Len(o.queries_ids) -> [1..Len(o.corpus_ids) -> 0..MaxScore]]

Finished == {"idle", "returned", "raised"}

\* the caller stops calling once the report is MaxRows lines past its header,
\* or a write to it has failed
CallsGoOn == Len(csv.lines) <= MaxRows /\ ~torn

\* the call's frame is left: its locals are gone
FrameGone ==
    /\ cos_scores' = <<>>
    /\ top_hits' = <<>>
    /\ num_hits_at_k' = <<>>
    /\ precisions_at_k' = <<>>
    /\ recall_at_k' = <<>>
    /\ MRR' = <<>>
    /\ ndcg' = <<>>

\* a slip of the order: the report is opened before the scores are computed
RaiseAfterOpen(at) ==
    /\ pc' = "raised"
    /\ raised_at' = at
    /\ FrameGone
    /\ ret' = None
    /\ csv' = [exists |-> TRUE, lines |-> IF csv.exists THEN csv.lines ELSE <<self.csv_headers>>]

\* an exception leaves the call before the report file is touched
Raise(at) ==
    /\ pc' = "raised"
    /\ raised_at' = at
    /\ FrameGone
    /\ ret' = None
    /\ csv' = csv

\* __call__, lines 77-199: the scores of the model, chunked scoring, the
\* metrics and their averages; raises where the code raises
Call(from, paths, labels) ==
    /\ pc \in from
    /\ CallsGoOn
    /\ \E path \in paths, label \in labels, scores \in ScoreMatrices(self) :
         \E out \in Outcomes(self, scores) :
            /\ output_path' = path
            /\ epoch' = label[1]
            /\ steps' = label[2]
            /\ csv_before' = csv
            /\ IF out.status = "raised"
               THEN Raise(out.at)
               ELSE /\ pc' = "aggregated"
                    /\ raised_at' = None
                    /\ cos_scores' = scores
                    /\ top_hits' = out.top_hits
                    /\ num_hits_at_k' = out.num_hits_at_k
                    /\ precisions_at_k' = out.precisions_at_k
                    /\ recall_at_k' = out.recall_at_k
                    /\ MRR' = out.MRR
                    /\ ndcg' = out.ndcg
                    /\ ret' = None
                    /\ csv' = csv
    /\ UNCHANGED <<fit, best_score, model, stored, log, threads, supplied, self, written, torn>>

\* lines 88 and 100: model.encode raises; line 85 has run before it
EncodeRaises ==
    /\ pc \in Finished
    /\ CallsGoOn
    /\ ~EmptyKList(self)
    /\ \E path \in {None, Path} :
         /\ output_path' = path
         /\ epoch' = -1
         /\ steps' = -1
         /\ csv_before' = csv
         /\ Raise("encode")
    /\ UNCHANGED <<fit, best_score, model, stored, log, threads, supplied, self, written, torn>>

\* lines 201-229: the row is appended to the report when an output path is
\* given, and the call returns
Report ==
    /\ pc = "aggregated"
    /\ LET row == OutputData(self, epoch, steps, num_hits_at_k, precisions_at_k, recall_at_k, MRR, ndcg)
       IN IF output_path = None
          THEN UNCHANGED <<csv, written>>
          ELSE /\ csv' = WriteRow(OpenCsv(csv, self.csv_headers), row)
               /\ written' = Append(written, row)
    /\ ret' = ReturnValue(self, MRR)
    /\ pc' = "returned"
    /\ FrameGone
    /\ UNCHANGED <<fit, best_score, model, stored, log, threads, supplied, self, raised_at, output_path, epoch, steps, csv_before, torn>>

\* lines 204 and 209: open raises (no permission); the file is as it was
OpenRaises ==
    /\ pc = "aggregated"
    /\ output_path # None
    /\ Raise("open")
    /\ UNCHANGED <<fit, best_score, model, stored, log, threads, supplied, self, output_path, epoch, steps, csv_before, written, torn>>

\* lines 205-227: a write or the close raises (disk full, I/O error)
WriteRaises ==
    /\ pc = "aggregated"
    /\ output_path # None
    /\ LET row == OutputData(self, epoch, steps, num_hits_at_k, precisions_at_k, recall_at_k, MRR, ndcg)
       IN \E f \in TornWrites(csv, self.csv_headers, row) :
            /\ pc' = "raised"
            /\ raised_at' = "write"
            /\ csv' = f
    /\ torn' = TRUE
    /\ FrameGone
    /\ ret' = None
    /\ UNCHANGED <<fit, best_score, model, stored, log, threads, supplied, self, output_path, epoch, steps, csv_before, written>>

\* evaluation alone: calls without an output path, over every evaluator of up
\* to MaxCells scores
InitEval ==
    /\ \E nq \in 1..MaxQueries, nc \in 1..MaxCorpus :
          /\ nq * nc <= MaxCells
          /\ supplied \in PlainArguments(nq, nc, MaxRel, 1..MaxQueries, 1..MaxCorpus)
    /\ self = New(supplied)
    /\ threads = <<>>
    /\ NoFit
    /\ Fresh

CallEval == Call({"idle"}, {None}, {<<-1, -1>>})

NextEval == CallEval \/ Report

SpecEval == InitEval /\ [][NextEval]_vars

\* evaluation with the report: one query with at most one relevant document
\* over MaxK + 1 documents, no chunking
\* (the chunk sizes exceed the data, as the defaults do), calls with and
\* without an output path, the epoch counting the rows written so far
Init ==
    /\ supplied \in PlainArguments(1, MaxK + 1, 1, {MaxQueries}, {MaxCorpus})
    /\ self = New(supplied)
    /\ threads = <<>>
    /\ NoFit
    /\ Fresh

CallAny == Call(Finished, {None, Path}, {<<Len(written), -1>>})

Next == CallAny \/ EncodeRaises \/ Report \/ OpenRaises \/ WriteRaises

Spec == Init /\ [][Next]_vars

\* the texts of queries
Texts == {"a", "b"}

\* the dicts over some of the keys, in any insertion order, with values of `values`
Dicts(keys, values) ==
    UNION {{d \in [1..n -> keys \X values] : \A i, j \in 1..n : i # j => d[i][1] # d[j][1]} :
           n \in 0..Cardinality(keys)}

\* relevance judgments for some of the query ids `qids`: a query id may be
\* missing from them, or mapped to the empty set
PartialRelevantDocs(qids, dids, maxrel) ==
    UNION {[D -> {R \in SUBSET dids : Cardinality(R) <= maxrel}] : D \in SUBSET qids}

\* construction and evaluation: up to MaxQueries queries in any order, judgments
\* that miss some of them and hold a query id that is no query, over one
\* document of the MaxK + 1 of the corpus, k = 1..MaxK
InitNew ==
    /\ supplied \in Arguments(Dicts({QueryId(i) : i \in 1..MaxQueries}, Texts),
                              {[i \in 1..(MaxK + 1) |-> <<DocId(MaxK + 2 - i), IF i = 1 THEN "y" ELSE "x">>]},
                              PartialRelevantDocs({QueryId(i) : i \in 1..(MaxQueries + 1)},
                                                  {DocId(1)}, MaxRel),
                              {MaxQueries}, {MaxCorpus}, {[i \in 1..MaxK |-> i]}, {[i \in 1..MaxK |-> i]})
    /\ self = New(supplied)
    /\ threads = <<>>
    /\ NoFit
    /\ Fresh

CallNew == Call(Finished, {None}, {<<-1, -1>>})

NextNew == CallNew \/ Report

SpecNew == InitNew /\ [][NextNew]_vars

\* ------------------------------------------------- concurrent report writes
\* two calls of one evaluator, in two threads, with the same output path
Callers == {1, 2}

\* the variables the report lines of a thread leave alone
frame == <<fit, best_score, model, stored, log, supplied, self, pc, raised_at, cos_scores, output_path, epoch, steps, top_hits, num_hits_at_k, precisions_at_k, recall_at_k, MRR, ndcg, ret, csv_before, torn>>

\* the zero bytes a write behind the end of the file leaves before it
Hole == <<"hole">>

\* write(2) of the lines `buffer` at the offset `pos` (in lines) of a file
\* opened with "w": what is there is overwritten, the file grows as needed
WriteAt(lines, pos, buffer) ==
    LET padded == lines \o [i \in 1..(pos - Len(lines)) |-> Hole]
        n == IF Len(padded) >= pos + Len(buffer) THEN Len(padded) ELSE pos + Len(buffer)
    IN [i \in 1..n |-> IF i > pos /\ i <= pos + Len(buffer) THEN buffer[i - pos] ELSE padded[i]]

\* the file after the buffer of fOut has been written out: at the offset of
\* fOut for mode "w", at the end of the file for mode "a"
Flushed(f, th) ==
    IF th.mode = "w" THEN [f EXCEPT !.lines = WriteAt(@, th.pos, th.buffer)]
    ELSE [f EXCEPT !.lines = @ \o th.buffer]

\* a thread at line 201: its call has averaged, its row is output_data
AtReport(row) ==
    [at |-> "isfile", found |-> FALSE, mode |-> None, pos |-> 0, buffer |-> <<>>, output_data |-> row]

\* line 203: os.path.isfile(csv_path)
IsFile(t) ==
    /\ threads[t].at = "isfile"
    /\ threads' = [threads EXCEPT ![t].at = "open", ![t].found = csv.exists]
    /\ UNCHANGED <<csv, written, frame>>

\* line 204: open(csv_path, "w") creates the file or truncates it;
\* line 209: open(csv_path, "a")
Open(t) ==
    /\ threads[t].at = "open"
    /\ IF ~threads[t].found
       THEN /\ csv' = [exists |-> TRUE, lines |-> <<>>]
            /\ threads' = [threads EXCEPT ![t].at = "header", ![t].mode = "w"]
       ELSE /\ csv' = [csv EXCEPT !.exists = TRUE]
            /\ threads' = [threads EXCEPT ![t].at = "row", ![t].mode = "a"]
    /\ UNCHANGED <<written, frame>>

\* lines 205-206: the header and its newline go to the buffer of fOut
Header(t) ==
    /\ threads[t].at = "header"
    /\ threads' = [threads EXCEPT ![t].at = "row", ![t].buffer = Append(@, self.csv_headers)]
    /\ UNCHANGED <<csv, written, frame>>

\* lines 211-226: the row and its newline go to the buffer of fOut
Row(t) ==
    /\ threads[t].at = "row"
    /\ threads' = [threads EXCEPT ![t].at = "close", ![t].buffer = Append(@, threads[t].output_data)]
    /\ UNCHANGED <<csv, written, frame>>

\* a write of lines 205-226 that fills the buffer of fOut writes it out
Flush(t) ==
    /\ threads[t].at \in {"row", "close"}
    /\ threads[t].buffer # <<>>
    /\ csv' = Flushed(csv, threads[t])
    /\ threads' = [threads EXCEPT ![t].buffer = <<>>, ![t].pos = @ + Len(threads[t].buffer)]
    /\ UNCHANGED <<written, frame>>

\* line 227: close writes out what the buffer holds
Close(t) ==
    /\ threads[t].at = "close"
    /\ csv' = Flushed(csv, threads[t])
    /\ threads' = [threads EXCEPT ![t].at = "done", ![t].buffer = <<>>, ![t].pos = @ + Len(threads[t].buffer)]
    /\ written' = Append(written, threads[t].output_data)
    /\ UNCHANGED frame

\* the rows of calls that average: one evaluator, any scores, the thread's
\* number as the epoch label
RowsOf(o, ep) ==
    UNION {{OutputData(o, ep, -1, out.num_hits_at_k, out.precisions_at_k, out.recall_at_k, out.MRR, out.ndcg) :
              out \in {x \in Outcomes(o, scores) : x.status = "ok"}} : scores \in ScoreMatrices(o)}

\* two threads have averaged and stand before line 201; there is no report yet
InitConcurrent ==
    /\ supplied \in PlainArguments(1, MaxK + 1, 1, {MaxQueries}, {MaxCorpus})
    /\ self = New(supplied)
    /\ threads \in [Callers -> {AtReport(row) : row \in UNION {RowsOf(self, t) : t \in Callers}}]
    /\ \A t \in Callers : threads[t].output_data[1] = t
    /\ NoFit
    /\ Fresh

NextConcurrent ==
    \E t \in Callers : IsFile(t) \/ Open(t) \/ Header(t) \/ Row(t) \/ Flush(t) \/ Close(t)

SpecConcurrent == InitConcurrent /\ [][NextConcurrent]_vars

\* ------------------------------------------------------- CrossEncoder.fit
\* self.best_score at the start of fit
InitialBestScore == -9999999

\* the scores an evaluator returns: two above self.best_score of line 124,
\* one below it
Scores == {InitialBestScore - 1, 0, 1}

\* what fit leaves alone: the evaluator's own state
evaluation == <<threads, supplied, self, pc, raised_at, cos_scores, output_path, epoch, steps, top_hits, num_hits_at_k, precisions_at_k, recall_at_k, MRR, ndcg, ret, csv, csv_before, written, torn>>

\* the calls fit makes, as they are logged: the evaluator on the weights m,
\* the callback, the save of the weights m
Called(kind, score, ep, st, m) == [kind |-> kind, score |-> score, epoch |-> ep, steps |-> st, model |-> m]

\* CrossEncoder.save: nothing is stored without a path
save(path, m) == IF path = None THEN stored ELSE m

\* the branch of lines 253-256 that saves
SavesBest(score) == score > best_score /\ fit.save_best_model

\* a slip of the order: the save of lines 253-256 before the callback
EvalEventsSaveFirst(score, ep, st, m) ==
    <<Called("evaluator", score, ep, st, m)>>
    \o (IF SavesBest(score) /\ fit.output_path # None THEN <<Called("save", score, ep, st, m)>> ELSE <<>>)
    \o (IF fit.callback THEN <<Called("callback", score, ep, st, None)>> ELSE <<>>)

\* the calls of one _eval_during_training, in order: line 250, line 252,
\* line 256
EvalEvents(score, ep, st, m) ==
    <<Called("evaluator", score, ep, st, m)>>
    \o (IF fit.callback THEN <<Called("callback", score, ep, st, None)>> ELSE <<>>)
    \o (IF SavesBest(score) /\ fit.output_path # None THEN <<Called("save", score, ep, st, m)>> ELSE <<>>)

\* _eval_during_training(evaluator, output_path, save_best_model, epoch,
\* steps, callback) on the weights m
eval_during_training(ep, st, m) ==
    IF ~fit.evaluator THEN UNCHANGED <<best_score, stored, log>>
    ELSE \E score \in Scores :
            /\ log' = log \o EvalEvents(score, ep, st, m)
            /\ best_score' = IF score > best_score THEN score ELSE best_score
            /\ stored' = IF SavesBest(score) THEN save(fit.output_path, m) ELSE stored

\* line 188: an evaluation is due after this training step
EvaluationDue(training_steps) ==
    fit.evaluator /\ fit.evaluation_steps > 0 /\ training_steps % fit.evaluation_steps = 0

\* lines 148-151: the next epoch begins
EpochStart ==
    /\ fit.at = "epoch"
    /\ fit.epoch + 1 < fit.epochs
    /\ fit' = [fit EXCEPT !.at = "batch", !.epoch = @ + 1, !.training_steps = 0]
    /\ UNCHANGED <<best_score, model, stored, log, evaluation>>

\* lines 153-192: one batch is trained on, and the model evaluated when due
TrainStep ==
    /\ fit.at = "batch"
    /\ fit.training_steps < fit.batches
    /\ model' = model + 1
    /\ fit' = [fit EXCEPT !.training_steps = @ + 1]
    /\ IF EvaluationDue(fit.training_steps + 1)
       THEN eval_during_training(fit.epoch, fit.training_steps + 1, model + 1)
       ELSE UNCHANGED <<best_score, stored, log>>
    /\ UNCHANGED evaluation

\* lines 194-195: the dataloader is exhausted; the evaluation of the epoch
EpochEnd ==
    /\ fit.at = "batch"
    /\ fit.training_steps = fit.batches
    /\ fit' = [fit EXCEPT !.at = "epoch"]
    /\ IF fit.evaluator
       THEN eval_during_training(fit.epoch, -1, model)
       ELSE UNCHANGED <<best_score, stored, log>>
    /\ UNCHANGED <<model, evaluation>>

\* line 148: no epoch is left, fit returns
Return ==
    /\ fit.at = "epoch"
    /\ fit.epoch + 1 >= fit.epochs
    /\ fit' = [fit EXCEPT !.at = "returned"]
    /\ UNCHANGED <<best_score, model, stored, log, evaluation>>

\* fit at line 147: its arguments, self.best_score of line 124, the weights
\* before any step, nothing stored at output_path
InitFit ==
    /\ fit \in [evaluator : BOOLEAN, epochs : 0..MaxEpochs, batches : 0..MaxBatches,
                 evaluation_steps : 0..MaxEvalSteps, output_path : {None, Path},
                 save_best_model : BOOLEAN, callback : BOOLEAN,
                 at : {"epoch"}, epoch : {-1}, training_steps : {0}]
    /\ best_score = InitialBestScore
    /\ model = 0
    /\ stored = None
    /\ log = <<>>
    /\ supplied = None
    /\ self = None
    /\ threads = <<>>
    /\ Fresh

NextFit == EpochStart \/ TrainStep \/ EpochEnd \/ Return

SpecFit == InitFit /\ [][NextFit]_vars

\* ------------------------------------------------------------------ claims
\* the call has left lines 85-180: with averages, or by raising from them
Scored == pc = "aggregated" \/ (pc = "raised" /\ raised_at \in {"max_k", "argpartition", "average"})

\* the evaluator with the whole query set and the whole corpus as one chunk each
Unchunked(o) ==
    [o EXCEPT !.query_chunk_size = IF Len(o.queries_ids) = 0 THEN 1 ELSE Len(o.queries_ids),
              !.corpus_chunk_size = Len(o.corpus_ids)]

MetricsOf(out) == <<out.status, out.num_hits_at_k, out.precisions_at_k, out.recall_at_k, out.MRR, out.ndcg>>

\* C1 (as claimed): whatever the positive chunk sizes, the call gives the
\* metrics the same evaluator gives on the same scores with one chunk of
\* queries and one chunk of documents: it averages exactly when that one
\* does, and its metrics are metrics that one can give.
C1_ChunkingInvariance ==
    /\ pc = "aggregated" =>
          <<"ok", num_hits_at_k, precisions_at_k, recall_at_k, MRR, ndcg>>
             \in {MetricsOf(x) : x \in Outcomes(Unchunked(self), cos_scores)}
    /\ (pc = "raised" /\ raised_at = "argpartition") =>
          \A scores \in ScoreMatrices(self) :
             \A x \in Outcomes(Unchunked(self), scores) : x.status = "raised"

\* C2: after a call over a non-empty retained query set has averaged, every
\* Accuracy@k, Precision@k, Recall@k and NDCG@k lies in [0, 1] and every
\* MRR@k is at least 0, for every k of the family's k list.
C2_MetricBounds ==
    (pc = "aggregated" /\ Len(self.queries_ids) > 0) =>
        /\ \A k \in DOMAIN num_hits_at_k : FracLe(Zero, num_hits_at_k[k]) /\ FracLe(num_hits_at_k[k], One)
        /\ \A k \in DOMAIN precisions_at_k : FracLe(Zero, precisions_at_k[k]) /\ FracLe(precisions_at_k[k], One)
        /\ \A k \in DOMAIN recall_at_k : FracLe(Zero, recall_at_k[k]) /\ FracLe(recall_at_k[k], One)
        /\ \A k \in DOMAIN ndcg : FracLe(Zero, ndcg[k]) /\ FracLe(ndcg[k], One)
        /\ \A k \in DOMAIN MRR : FracLe(Zero, MRR[k])
        /\ DOMAIN num_hits_at_k = Range(self.accuracy_at_k)
        /\ DOMAIN precisions_at_k = Range(self.precision_recall_at_k)
        /\ DOMAIN recall_at_k = Range(self.precision_recall_at_k)
        /\ DOMAIN ndcg = Range(self.ndcg_at_k)
        /\ DOMAIN MRR = Range(self.mrr_at_k)

\* two retained queries, one of them hit at k: metrics strictly inside (0, 1)
C2_Witness ==
    /\ pc = "aggregated"
    /\ Len(self.queries_ids) = 2
    /\ \E k \in DOMAIN num_hits_at_k : num_hits_at_k[k] = Frac(1, 2)
    /\ \E k \in DOMAIN ndcg : ~FracLe(ndcg[k], Zero) /\ ~FracLe(One, ndcg[k])

\* C3 (as claimed): a call on an evaluator with an empty k list does not raise.
C3_EmptyKListDefined ==
    (EmptyKList(self) /\ Len(self.queries_ids) > 0 /\ pc # "idle") => pc # "raised"

\* the evaluator of the scenario: one query, relevant {d2}, corpus d1, d2,
\* k = 1 and k = 2 in every family, chunks that hold all the data
C4_Scenario ==
    /\ self.queries_ids = <<QueryId(1)>>
    /\ self.corpus_ids = <<DocId(1), DocId(2)>>
    /\ self.relevant_docs[QueryId(1)] = {DocId(2)}
    /\ \A i \in 1..4 : KLists(self)[i] = <<1, 2>>
    /\ self.corpus_chunk_size >= 2

\* C4 (as claimed): in the scenario the call averages, and when d1 scores
\* higher than d2 every metric at k = 1 is 0 while Accuracy@2 = Recall@2 = 1.
C4_RankedSecondOfTwo ==
    (C4_Scenario /\ Scored) =>
        /\ pc = "aggregated"
        /\ cos_scores[1][1] > cos_scores[1][2] =>
              /\ num_hits_at_k[1] = Zero /\ precisions_at_k[1] = Zero /\ recall_at_k[1] = Zero
              /\ MRR[1] = Zero /\ ndcg[1] = Zero
              /\ num_hits_at_k[2] = One /\ recall_at_k[2] = One

\* one retained query whose only relevant document is in the corpus, k = [1]
\* in every family
C5_Scenario ==
    /\ Len(self.queries_ids) = 1
    /\ \E d \in Range(self.corpus_ids) : Relevant(self, 1) = {d}
    /\ \A i \in 1..4 : KLists(self)[i] = <<1>>

\* the relevant document of the scenario scores strictly highest
C5_RelevantOnTop ==
    \A i, j \in 1..Len(self.corpus_ids) :
        (self.corpus_ids[i] \in Relevant(self, 1) /\ j # i) => cos_scores[1][i] > cos_scores[1][j]

\* C5 (as claimed): for any corpus size and any chunk sizes the call of the
\* scenario averages, and when the relevant document scores strictly highest
\* every metric at k = 1 is 1.
C5_SingleRelevantOnTop ==
    (C5_Scenario /\ Scored) =>
        /\ pc = "aggregated"
        /\ C5_RelevantOnTop =>
              /\ num_hits_at_k[1] = One /\ precisions_at_k[1] = One /\ recall_at_k[1] = One
              /\ MRR[1] = One /\ ndcg[1] = One

\* C6: within one call, for requested k1 < k2, Accuracy@k1 <= Accuracy@k2 and
\* Recall@k1 <= Recall@k2.
C6_MonotoneInK ==
    pc = "aggregated" =>
        /\ \A k1, k2 \in DOMAIN num_hits_at_k : k1 < k2 => FracLe(num_hits_at_k[k1], num_hits_at_k[k2])
        /\ \A k1, k2 \in DOMAIN recall_at_k : k1 < k2 => FracLe(recall_at_k[k1], recall_at_k[k2])

\* a call in which both grow strictly from k = 1 to k = 2
C6_Witness ==
    /\ pc = "aggregated"
    /\ {1, 2} \subseteq DOMAIN num_hits_at_k
    /\ ~FracLe(num_hits_at_k[2], num_hits_at_k[1])
    /\ ~FracLe(recall_at_k[2], recall_at_k[1])

\* the reciprocal 1-indexed rank of the first relevant hit among the top k, or 0
RankOfFirst(hits, relevant, k) ==
    LET S == {i \in 1..Len(hits) : i <= k /\ hits[i] \in relevant}
    IN IF S = {} THEN Zero ELSE Frac(1, CHOOSE i \in S : \A j \in S : i <= j)

\* its mean over the retained queries
MeanReciprocalRank(o, th, k) ==
    FracDiv(FracSum([q \in 1..Len(o.queries_ids) |-> RankOfFirst(th[q], Relevant(o, q), k)]), Len(o.queries_ids))

ScoreOf(o, row, id) == row[CHOOSE p \in 1..Len(o.corpus_ids) : o.corpus_ids[p] = id]

\* the first k hits of every query are k different documents in descending
\* order of score, and no document outside them scores higher than any of them
TopKRanked(o, scores, th, k) ==
    \A q \in 1..Len(o.queries_ids) :
        /\ Len(th[q]) >= k
        /\ \A i, j \in 1..k : i < j => th[q][i] # th[q][j] /\ ScoreOf(o, scores[q], th[q][i]) >= ScoreOf(o, scores[q], th[q][j])
        /\ \A i \in 1..k : \A d \in Range(o.corpus_ids) \ {th[q][j] : j \in 1..k} :
              ScoreOf(o, scores[q], th[q][i]) >= ScoreOf(o, scores[q], d)

\* C7: the value a call returns is the mean over the retained queries of the
\* reciprocal rank of the first relevant hit among the top k hits, for k the
\* maximum of the MRR k list, wherever it stands in the list and whatever the
\* other families request; those top k hits are the k best-scoring documents.
C7_ReturnsMrrAtMaxK ==
    [][(pc = "aggregated" /\ pc' = "returned") =>
          /\ ret' = MeanReciprocalRank(self, top_hits, MaxOf(self.mrr_at_k))
          /\ TopKRanked(self, cos_scores, top_hits, MaxOf(self.mrr_at_k))]_vars

\* a call has returned 1/2 with the MRR list [2, 1] and Accuracy list [1]: the
\* first relevant hit is at rank 2, which MRR@1 would not count
C7_Witness ==
    /\ pc = "returned"
    /\ self.mrr_at_k = <<2, 1>>
    /\ self.accuracy_at_k = <<1>>
    /\ ret = Frac(1, 2)

\* C8: as long as no write has failed, the report file is its header line
\* followed by the rows of the calls that wrote to it, one per call, in call
\* order (the epoch of the i-th row is i - 1); there is no file before the
\* first of them.
C8_HeaderOnceRowsAppended ==
    ~torn =>
        /\ csv.exists <=> written # <<>>
        /\ csv.exists => csv.lines = <<self.csv_headers>> \o written
        /\ \A i \in 1..Len(written) : csv.lines[i + 1][1] = i - 1

\* two calls have written: the header and two rows
C8_Witness == ~torn /\ csv.exists /\ Len(csv.lines) = 3 /\ Len(written) = 2 /\ pc = "returned"

\* the step of a call that appends its row to the report
Reports == pc = "aggregated" /\ pc' = "returned" /\ output_path # None

\* the column layout as claimed: every Precision column, then every Recall column
ClaimedHeaders(o) ==
    << <<"epoch", 0>>, <<"steps", 0>> >>
    \o [i \in 1..Len(o.accuracy_at_k) |-> <<"Accuracy", o.accuracy_at_k[i]>>]
    \o [i \in 1..Len(o.precision_recall_at_k) |-> <<"Precision", o.precision_recall_at_k[i]>>]
    \o [i \in 1..Len(o.precision_recall_at_k) |-> <<"Recall", o.precision_recall_at_k[i]>>]
    \o [i \in 1..Len(o.mrr_at_k) |-> <<"MRR", o.mrr_at_k[i]>>]
    \o [i \in 1..Len(o.ndcg_at_k) |-> <<"NDCG", o.ndcg_at_k[i]>>]

\* the column layout as amended: Precision@k and Recall@k side by side, k by k
PairedHeaders(o) ==
    LET na == Len(o.accuracy_at_k)
        np == Len(o.precision_recall_at_k)
        nm == Len(o.mrr_at_k)
        nn == Len(o.ndcg_at_k)
    IN [i \in 1..(2 + na + 2 * np + nm + nn) |->
          IF i = 1 THEN <<"epoch", 0>>
          ELSE IF i = 2 THEN <<"steps", 0>>
          ELSE IF i <= 2 + na THEN <<"Accuracy", o.accuracy_at_k[i - 2]>>
          ELSE IF i <= 2 + na + 2 * np
               THEN <<(IF (i - 2 - na) % 2 = 1 THEN "Precision" ELSE "Recall"),
                      o.precision_recall_at_k[(i - 1 - na) \div 2]>>
          ELSE IF i <= 2 + na + 2 * np + nm THEN <<"MRR", o.mrr_at_k[i - 2 - na - 2 * np]>>
          ELSE <<"NDCG", o.ndcg_at_k[i - 2 - na - 2 * np - nm]>>]

\* the value of the metric a header column names, in the call that reports
MetricNamed(column) ==
    CASE column[1] = "epoch" -> epoch
      [] column[1] = "steps" -> steps
      [] column[1] = "Accuracy" -> num_hits_at_k[column[2]]
      [] column[1] = "Precision" -> precisions_at_k[column[2]]
      [] column[1] = "Recall" -> recall_at_k[column[2]]
      [] column[1] = "MRR" -> MRR[column[2]]
      [] column[1] = "NDCG" -> ndcg[column[2]]

\* the row a reporting call appends has one field per header column, each the
\* value of the metric its column names
RowMatchesHeader ==
    LET header == csv'.lines[1]
        row == csv'.lines[Len(csv'.lines)]
    IN /\ Len(csv'.lines) = (IF csv.exists THEN Len(csv.lines) ELSE 1) + 1
       /\ Len(row) = Len(header)
       /\ \A i \in 1..Len(header) : row[i] = MetricNamed(header[i])

C11_RetainedNonEmpty ==
    LET keys == Keys(supplied.queries)
        rel == supplied.relevant_docs
        ids == self.queries_ids
        pos(id) == CHOOSE i \in 1..Len(keys) : keys[i] = id
    IN /\ Range(ids) = {id \in Range(keys) : id \in DOMAIN rel /\ rel[id] # {}}
       /\ \A i, j \in 1..Len(ids) : i < j => pos(ids[i]) < pos(ids[j])
       /\ Len(self.queries) = Len(ids)
       /\ \A i \in 1..Len(ids) : <<ids[i], self.queries[i]>> \in Range(supplied.queries)
       /\ self.corpus_ids = [i \in 1..Len(supplied.corpus) |-> supplied.corpus[i][1]]
       /\ self.corpus = [i \in 1..Len(supplied.corpus) |-> supplied.corpus[i][2]]
       /\ pc = "aggregated" =>
             /\ Len(top_hits) = Len(ids)
             /\ \A q \in 1..Len(ids) :
                   ids[q] \in DOMAIN self.relevant_docs /\ Cardinality(self.relevant_docs[ids[q]]) >= 1
             /\ \A k \in DOMAIN recall_at_k : recall_at_k[k][2] > 0
       /\ pc = "raised" => raised_at \notin {"relevant_docs", "recall"}

\* a call has averaged over the one query retained of two: the first of the
\* two, "a", is judged with the empty set, and the second, "b", is found
C11_Witness ==
    /\ pc = "aggregated"
    /\ Len(supplied.queries) = 2
    /\ supplied.queries[1][2] = "a"
    /\ supplied.queries[1][1] \in DOMAIN supplied.relevant_docs
    /\ supplied.relevant_docs[supplied.queries[1][1]] = {}
    /\ self.queries = <<"b">>
    /\ \E k \in DOMAIN recall_at_k : recall_at_k[k] = One

\* C12 (as claimed): two calls that report to the same file at the same time
\* are serialized: while one of them is between its open and its close the
\* other is not, and once both have closed the file is the header line
\* followed by the rows of both calls, and nothing else.
C12_WritesSerialized ==
    /\ ~(\A t \in Callers : threads[t].at \in {"header", "row", "close"})
    /\ (\A t \in Callers : threads[t].at = "done") =>
          /\ Len(csv.lines) = 1 + Cardinality(Callers)
          /\ csv.lines[1] = self.csv_headers
          /\ \A t \in Callers : \E i \in 2..Len(csv.lines) : csv.lines[i] = threads[t].output_data

\* the places of the evaluator calls in the log
Evaluations == {i \in 1..Len(log) : log[i].kind = "evaluator"}

\* the evaluation at place i of the log was followed by a save
SavedAt(i) ==
    \E j \in (i + 1)..Len(log) :
        log[j].kind = "save" /\ \A l \in (i + 1)..j : log[l].kind # "evaluator"

\* the score at place i is strictly greater than every earlier score
NewBest(i) == \A j \in Evaluations : j < i => log[j].score < log[i].score

\* C13 (as claimed): once the evaluator has been called, best_score is the
\* greatest score it has returned; with an output path, the model is saved at
\* exactly the evaluations whose score is strictly greater than every earlier
\* score, and only when save_best_model is true; and when fit has returned
\* after such saves, the model stored at output_path is the weights of the
\* first evaluation that returned the greatest score.
C13_BestScoreIsMaxSeen ==
    /\ Evaluations # {} =>
          /\ best_score \in {log[i].score : i \in Evaluations}
          /\ \A i \in Evaluations : log[i].score <= best_score
    /\ fit.output_path # None =>
          \A i \in Evaluations : SavedAt(i) <=> (NewBest(i) /\ fit.save_best_model)
    /\ (fit.at = "returned" /\ Evaluations # {} /\ fit.save_best_model /\ fit.output_path # None) =>
          \E i \in Evaluations :
              /\ NewBest(i)
              /\ \A j \in Evaluations : log[j].score <= log[i].score
              /\ stored = log[i].model

\* the (epoch, steps) of the evaluations due in epoch e of a fit call that
\* has trained `done` steps of it: every evaluation_steps-th step, and -1
\* once the epoch has ended
DueIn(e, done, ended) ==
    (IF fit.evaluation_steps > 0
     THEN [i \in 1..(done \div fit.evaluation_steps) |-> <<e, i * fit.evaluation_steps>>]
     ELSE <<>>)
    \o (IF ended THEN << <<e, -1>> >> ELSE <<>>)

\* the evaluations due so far, epoch after epoch
DueSoFar ==
    IF ~fit.evaluator THEN <<>>
    ELSE Flatten([n \in 1..(fit.epoch + 1) |->
                    IF n - 1 < fit.epoch THEN DueIn(n - 1, fit.batches, TRUE)
                    ELSE DueIn(n - 1, fit.training_steps, fit.at # "batch")])

\* the places of the log up to i that hold an evaluator call
EvaluationsUpTo(i) == {j \in 1..i : log[j].kind = "evaluator"}

\* C14: the evaluator calls of a fit call are, in order, those due: in every
\* epoch one after each evaluation_steps-th training step of the epoch (when
\* evaluation_steps > 0; the step count starts anew in each epoch) and one
\* with steps = -1 at the end of the epoch, and no other; a callback that is
\* given is called once right after each evaluator call, with its score,
\* epoch and steps, and a save follows the callback; a callback that is not
\* given is never called.
C14_EvaluationSchedule ==
    /\ Cardinality(Evaluations) = Len(DueSoFar)
    /\ \A i \in Evaluations :
          /\ <<log[i].epoch, log[i].steps>> = DueSoFar[Cardinality(EvaluationsUpTo(i))]
          /\ fit.callback =>
                /\ i + 1 <= Len(log)
                /\ log[i + 1].kind = "callback"
                /\ <<log[i + 1].score, log[i + 1].epoch, log[i + 1].steps>>
                      = <<log[i].score, log[i].epoch, log[i].steps>>
    /\ \A i \in 1..Len(log) :
          /\ log[i].kind = "callback" => (fit.callback /\ i > 1 /\ log[i - 1].kind = "evaluator")
          /\ log[i].kind = "save" =>
                (i > 1 /\ log[i - 1].kind = (IF fit.callback THEN "callback" ELSE "evaluator"))

\* fit has returned after two epochs of two steps each with an evaluation
\* after every step: six evaluations, each with its callback, the last of
\* them followed by a save
C14_Witness ==
    /\ fit.at = "returned"
    /\ fit.epochs = 2 /\ fit.batches = 2 /\ fit.evaluation_steps = 1
    /\ fit.callback
    /\ Cardinality(Evaluations) = 6
    /\ log[Len(log)].kind = "save"
    /\ Cardinality({i \in 1..Len(log) : log[i].kind = "callback"}) = 6

====
